---- MODULE Spec2Model ----
(***************************************************************************)
(* A model of anhalyze_utils.py (ANHALYZE): the file catalog               *)
(* (Anhalyze.get_file_list, get_date), the spatial subsetter               *)
(* (get_row_col_range, get_mask, get_var_data), the time-series builder    *)
(* (get_timeseries) and the climatology engine (calc_timeseries,           *)
(* anhalize_timeseries).                                                   *)
(*                                                                         *)
(* The program is a library of synchronous functions.  The state of the    *)
(* model is the call being evaluated: which function (call), its           *)
(* arguments together with the external data it reads (args), and its      *)
(* outcome (ret): [status |-> "ok", value |-> v] when the function         *)
(* returns v, [status |-> "error", value |-> <exception name>] when it     *)
(* raises.  Python strings are TLA+ strings; Python lists and tuples are   *)
(* sequences; 0-based indices are kept 0-based in values.                  *)
(***************************************************************************)
EXTENDS Integers, Sequences, FiniteSets, TLC

VARIABLES call, args, ret

vars == <<call, args, ret>>

Ok(v) == [status |-> "ok", value |-> v]

Err(e) == [status |-> "error", value |-> e]

(***************************************************************************)
(* Python string operations.                                               *)
(***************************************************************************)

\* The characters of the strings the model is defined on, in code-point
\* order: the control characters U+0009 to U+000D and U+001C to U+001F,
\* the printable ASCII characters (the grave accent left out), and the
\* whitespace characters U+0085, U+00A0 and U+1680.
Alphabet == "\t\n\f\r !\"#$%&'()*+,-./0123456789:;<=>?@ABCDEFGHIJKLMNOPQRSTUVWXYZ[\\]^_abcdefghijklmnopqrstuvwxyz{|}~  "

\* s is a string over Alphabet.
Known(s) ==
    \A i \in 1..Len(s) : \E k \in 1..Len(Alphabet) : SubSeq(Alphabet, k, k) = SubSeq(s, i, i)

CharAt(s, i) == SubSeq(s, i, i)

\* ord(c): position in code-point order.
Ord(c) == CHOOSE i \in 1..Len(Alphabet) : CharAt(Alphabet, i) = c

\* Python's `sub in s` for strings.
Contains(s, sub) ==
    \E i \in 1..(Len(s) - Len(sub) + 1) : SubSeq(s, i, i + Len(sub) - 1) = sub

\* Python's str `<`: lexicographic on code points.
RECURSIVE StrLess(_, _)
StrLess(a, b) ==
    IF Len(b) = 0 THEN FALSE
    ELSE IF Len(a) = 0 THEN TRUE
    ELSE IF CharAt(a, 1) = CharAt(b, 1)
         THEN StrLess(SubSeq(a, 2, Len(a)), SubSeq(b, 2, Len(b)))
         ELSE Ord(CharAt(a, 1)) < Ord(CharAt(b, 1))

\* Insert x into the ascending list l, after the elements not greater than x.
RECURSIVE InsertSorted(_, _)
InsertSorted(x, l) ==
    IF l = <<>> THEN <<x>>
    ELSE IF StrLess(x, Head(l)) THEN <<x>> \o l
    ELSE <<Head(l)>> \o InsertSorted(x, Tail(l))

\* sorted(l) for a list of strings (stable, ascending).
RECURSIVE sorted(_)
sorted(l) ==
    IF l = <<>> THEN <<>>
    ELSE InsertSorted(l[Len(l)], sorted(SubSeq(l, 1, Len(l) - 1)))

\* s.split(sep) for a one-character separator.
RECURSIVE SplitFrom(_, _, _, _)
SplitFrom(s, sep, i, cur) ==
    IF i > Len(s) THEN <<cur>>
    ELSE IF CharAt(s, i) = sep
         THEN <<cur>> \o SplitFrom(s, sep, i + 1, "")
         ELSE SplitFrom(s, sep, i + 1, cur \o CharAt(s, i))

split(s, sep) == SplitFrom(s, sep, 1, "")

Digits == "0123456789"

DigitVal(c) == (CHOOSE i \in 1..10 : CharAt(Digits, i) = c) - 1

IsDigit(c) == \E i \in 1..10 : CharAt(Digits, i) = c

\* The characters of Alphabet that int() drops at the ends of a string:
\* tab, newline, vertical tab, form feed, carriage return, blank, U+0085,
\* U+00A0 and U+1680.  The separators U+001C to U+001F are whitespace to
\* str.isspace() but not to int(), which refuses them.
Whitespace == "\t\n\f\r   "

IsSpace(c) == \E i \in 1..Len(Whitespace) : CharAt(Whitespace, i) = c

\* s.strip() as int() applies it: whitespace at either end is dropped.
RECURSIVE Strip(_)
Strip(s) ==
    IF Len(s) = 0 THEN s
    ELSE IF IsSpace(CharAt(s, 1)) THEN Strip(SubSeq(s, 2, Len(s)))
    ELSE IF IsSpace(CharAt(s, Len(s))) THEN Strip(SubSeq(s, 1, Len(s) - 1))
    ELSE s

\* The digits of an integer literal: at least one, with single underscores
\* allowed between digits.
DigitGroupOk(s) ==
    /\ Len(s) > 0
    /\ IsDigit(CharAt(s, 1)) /\ IsDigit(CharAt(s, Len(s)))
    /\ \A i \in 1..Len(s) : IsDigit(CharAt(s, i)) \/ CharAt(s, i) = "_"
    /\ \A i \in 1..(Len(s) - 1) : ~(CharAt(s, i) = "_" /\ CharAt(s, i + 1) = "_")

\* The value of a digit group ("04" is 4, "1_0" is 10).
RECURSIVE DigitGroupValue(_)
DigitGroupValue(s) ==
    IF Len(s) = 0 THEN 0
    ELSE IF CharAt(s, Len(s)) = "_" THEN DigitGroupValue(SubSeq(s, 1, Len(s) - 1))
    ELSE 10 * DigitGroupValue(SubSeq(s, 1, Len(s) - 1)) + DigitVal(CharAt(s, Len(s)))

\* int() of a stripped string: an optional sign and a digit group; anything
\* else, the empty string included, raises ValueError.
IntOfStripped(s) ==
    IF Len(s) > 0 /\ CharAt(s, 1) = "-"
    THEN IF DigitGroupOk(SubSeq(s, 2, Len(s)))
         THEN Ok(0 - DigitGroupValue(SubSeq(s, 2, Len(s))))
         ELSE Err("ValueError")
    ELSE IF Len(s) > 0 /\ CharAt(s, 1) = "+"
    THEN IF DigitGroupOk(SubSeq(s, 2, Len(s)))
         THEN Ok(DigitGroupValue(SubSeq(s, 2, Len(s))))
         ELSE Err("ValueError")
    ELSE IF DigitGroupOk(s) THEN Ok(DigitGroupValue(s))
    ELSE Err("ValueError")

\* int(s) for a string s over Alphabet (the digits and the whitespace of
\* other scripts are not modelled: int is not defined on them).
int(s) == CASE Known(s) -> IntOfStripped(Strip(s))

\* str(n), as '{}'.format(n) writes it (4 is "4", not "04").
RECURSIVE str(_)
str(n) ==
    IF n < 0 THEN "-" \o str(0 - n)
    ELSE IF n < 10 THEN CharAt(Digits, n + 1)
    ELSE str(n \div 10) \o CharAt(Digits, (n % 10) + 1)

\* l[a:b] of Python for a string, 0 <= a <= b.
StrSlice(s, a, b) == SubSeq(s, a + 1, IF b > Len(s) THEN Len(s) ELSE b)

\* The concatenation of the lists of a list of lists.
RECURSIVE Concat(_)
Concat(ll) == IF ll = <<>> THEN <<>> ELSE Head(ll) \o Concat(Tail(ll))

(***************************************************************************)
(* get_date: the date token is the last but one "_"-separated field.       *)
(***************************************************************************)

\* how = '': filename.split('_')[-2]; a name of no "_" raises IndexError.
get_date(filename) ==
    IF Len(split(filename, "_")) < 2 THEN Err("IndexError")
    ELSE Ok(split(filename, "_")[Len(split(filename, "_")) - 1])

\* The tuple (int(..), int(..), int(..)): any failing int() raises ValueError.
IntTuple(y, m, d) ==
    IF y.status = "error" THEN y
    ELSE IF m.status = "error" THEN m
    ELSE IF d.status = "error" THEN d
    ELSE Ok(<<y.value, m.value, d.value>>)

YmdOfToken(date) ==
    IF date.status = "error" THEN date
    ELSE IntTuple(int(StrSlice(date.value, 1, 5)), int(StrSlice(date.value, 6, 8)),
                  int(StrSlice(date.value, 9, 11)))

MonthOfToken(date) ==
    IF date.status = "error" THEN date
    ELSE int(StrSlice(date.value, 6, 8))

\* how = 'ymd'
get_date_ymd(filename) == YmdOfToken(get_date(filename))

\* how = 'm'
get_date_m(filename) == MonthOfToken(get_date(filename))

(***************************************************************************)
(* Anhalyze.get_file_list.  A month of month_list is <<"str", s>> when     *)
(* the caller gave it and <<"int", n>> when get_date(how='m') produced it. *)
(***************************************************************************)

\* '{}'.format(month)
FormatMonth(month) == IF month[1] = "int" THEN str(month[2]) ELSE month[2]

\* 'y{}m{}'.format(year, month)
file_name_stump(year, month) == "y" \o year \o "m" \o FormatMonth(month)

\* YearFiles without sorted(): the files of the year in listing order.
YearFilesUnsorted(file_list, year, grid) ==
    LET Keep(f) == Contains(f, "_y" \o year) /\ Contains(f, "_grid" \o grid)
    IN  SelectSeq(file_list, Keep)

\* sorted([f for f in file_list if '_y' + year in f and '_grid' + grid in f])
YearFiles(file_list, year, grid) ==
    LET Keep(f) == Contains(f, "_y" \o year) /\ Contains(f, "_grid" \o grid)
    IN  sorted(SelectSeq(file_list, Keep))

\* The loop of line 210 over self.years.
SelectedFiles(file_list, years, grid) ==
    Concat([i \in 1..Len(years) |-> YearFiles(file_list, years[i], grid)])

\* [f for f in selected_file_list if file_name_stump in f]
MonthMatches(selected, year, month) ==
    LET Keep(f) == Contains(f, file_name_stump(year, month))
    IN  SelectSeq(selected, Keep)

\* The (year, month) pairs in the order the nested loops visit them.
YearMonthPairs(years, month_list) ==
    [k \in 1..(Len(years) * Len(month_list)) |->
        <<years[((k - 1) \div Len(month_list)) + 1],
          month_list[((k - 1) % Len(month_list)) + 1]>>]

\* [get_date(filename, how='m') for filename in selected_file_list]: the
\* first name that get_date fails on ends the comprehension.
MonthsOfFiles(selected) ==
    IF \E i \in 1..Len(selected) : get_date_m(selected[i]).status = "error"
    THEN get_date_m(selected[CHOOSE i \in 1..Len(selected) :
             /\ get_date_m(selected[i]).status = "error"
             /\ \A j \in 1..(i - 1) : get_date_m(selected[j]).status = "ok"])
    ELSE Ok([i \in 1..Len(selected) |-> <<"int", get_date_m(selected[i]).value>>])

\* The months the selection runs over: with one_per_month and no month list,
\* the months of the selected files.
MonthsToSelect(selected, month_list, one_per_month) ==
    IF one_per_month /\ month_list = <<>>
    THEN MonthsOfFiles(selected)
    ELSE Ok(month_list)

\* The matches of each (year, month) pair, in loop order.
AllMatches(selected, pairs) ==
    [k \in 1..Len(pairs) |-> MonthMatches(selected, pairs[k][1], pairs[k][2])]

\* monthly_file_list: the first match of each pair (an empty match list
\* raises IndexError), or all the matches of all pairs.
MonthlyFileList(matches, one_per_month) ==
    IF one_per_month
    THEN IF \E k \in 1..Len(matches) : matches[k] = <<>>
         THEN Err("IndexError")
         ELSE Ok([k \in 1..Len(matches) |-> matches[k][1]])
    ELSE Ok(Concat(matches))

\* if monthly_file_list: selected_file_list = monthly_file_list; then the
\* data path is put before every name.
WithDataPath(data_path, selected, monthly) ==
    IF monthly.status = "error" THEN monthly
    ELSE IF monthly.value # <<>>
         THEN Ok([i \in 1..Len(monthly.value) |-> data_path \o monthly.value[i]])
         ELSE Ok([i \in 1..Len(selected) |-> data_path \o selected[i]])

\* The loops over years and months, and what follows them.
SelectByMonths(data_path, selected, years, months, one_per_month) ==
    IF months.status = "error" THEN months
    ELSE WithDataPath(data_path, selected,
             MonthlyFileList(
                 AllMatches(selected, YearMonthPairs(years, months.value)),
                 one_per_month))

\* The month selection on the files selected by year and grid.
SelectMonths(data_path, selected, years, month_list, one_per_month) ==
    SelectByMonths(data_path, selected, years,
                   MonthsToSelect(selected, month_list, one_per_month),
                   one_per_month)

\* The whole method: the outcome for a directory listing file_list read at
\* data_path.  An empty month_list stands for None as for [].
get_file_list(data_path, file_list, years, grid, month_list, one_per_month) ==
    SelectMonths(data_path, SelectedFiles(file_list, years, grid), years,
                 month_list, one_per_month)

(***************************************************************************)
(* Inputs of the file catalog.                                             *)
(***************************************************************************)

\* Names a run directory may hold, in an order that is not alphabetical.
FileUniverse ==
    << "R_y1999m01d05_gridT.nc", "R_y1998m10d02_gridT.nc",
       "R_y1998m01d10_gridT.nc", "R_y1998m01d05_gridU.nc",
       "R_y1998m02d04_gridT.nc", "R_y1998m01d05_gridT.nc",
       "R_y1998m10d07_gridT.nc", "R_y1998_gridT.nc" >>

MaxFiles == 3

MaxYears == 2

MaxMonths == 2

YearNames == {"1998", "1999"}

GridNames == {"T", "U"}

MonthNames == {"01", "10"}

DataPaths == {"/data/ANHA4-EPM111-S/"}

\* The universe's names picked by the index set S, in the universe's order.
RECURSIVE Pick(_, _)
Pick(S, i) ==
    IF i > Len(FileUniverse) THEN <<>>
    ELSE (IF i \in S THEN <<FileUniverse[i]>> ELSE <<>>) \o Pick(S, i + 1)

Listings ==
    {Pick(S, 1) : S \in {T \in SUBSET (1..Len(FileUniverse)) : Cardinality(T) <= MaxFiles}}

SeqsUpTo(S, n) == UNION {[1..k -> S] : k \in 0..n}

YearLists == SeqsUpTo(YearNames, MaxYears) \ {<<>>}

MonthLists == {[i \in 1..Len(l) |-> <<"str", l[i]>>] :
                  l \in SeqsUpTo(MonthNames, MaxMonths) \ {<<>>}}

CatalogArgs(dp, fl, ys, g, ml, opm) ==
    [data_path |-> dp, file_list |-> fl, years |-> ys, grid |-> g,
     month_list |-> ml, one_per_month |-> opm]

\* get_file_list() with neither a month list nor one_per_month.
GetFileListAll ==
    /\ call = "none"
    /\ \E dp \in DataPaths, fl \in Listings, ys \in YearLists, g \in GridNames :
          /\ call' = "get_file_list"
          /\ args' = CatalogArgs(dp, fl, ys, g, <<>>, FALSE)
          /\ ret'  = get_file_list(dp, fl, ys, g, <<>>, FALSE)

\* get_file_list(month_list=ml)
GetFileListMonths ==
    /\ call = "none"
    /\ \E dp \in DataPaths, fl \in Listings, ys \in YearLists, g \in GridNames,
          ml \in MonthLists :
          /\ call' = "get_file_list"
          /\ args' = CatalogArgs(dp, fl, ys, g, ml, FALSE)
          /\ ret'  = get_file_list(dp, fl, ys, g, ml, FALSE)

\* get_file_list(one_per_month=True), with or without a month list
GetFileListOnePerMonth ==
    /\ call = "none"
    /\ \E dp \in DataPaths, fl \in Listings, ys \in YearLists, g \in GridNames,
          ml \in MonthLists \cup {<<>>} :
          /\ call' = "get_file_list"
          /\ args' = CatalogArgs(dp, fl, ys, g, ml, TRUE)
          /\ ret'  = get_file_list(dp, fl, ys, g, ml, TRUE)

Init ==
    /\ call = "none"
    /\ args = <<>>
    /\ ret  = Ok(<<>>)

\* The call is over: the library is idle again, ready for the next call.
Return ==
    /\ call # "none"
    /\ call' = "none"
    /\ args' = <<>>
    /\ ret'  = Ok(<<>>)

NextCatalog ==
    GetFileListAll \/ GetFileListMonths \/ GetFileListOnePerMonth \/ Return

SpecCatalog == Init /\ [][NextCatalog]_vars

(***************************************************************************)
(* The file catalog's claims.                                              *)
(***************************************************************************)

IsFileListCall == call = "get_file_list"

Range(l) == {l[i] : i \in 1..Len(l)}

\* The names of the listing that carry the year token and the grid token.
NamesOf(file_list, year, grid) ==
    {f \in Range(file_list) :
        Contains(f, "_y" \o year) /\ Contains(f, "_grid" \o grid)}

\* The names of S in alphabetical order: the k-th has k - 1 names before it.
Alphabetical(S) ==
    [k \in 1..Cardinality(S) |->
        CHOOSE f \in S : Cardinality({h \in S : StrLess(h, f)}) = k - 1]

\* One alphabetical block per year, in the order the years were given.
ExpectedAll(a) ==
    LET block(i) == Alphabetical(NamesOf(a.file_list, a.years[i], a.grid))
        names == Concat([i \in 1..Len(a.years) |-> block(i)])
    IN  [k \in 1..Len(names) |-> a.data_path \o names[k]]

\* C2: with no month list and one_per_month false, get_file_list returns the
\* data path prepended to each name holding '_y<year>' and '_grid<grid>',
\* one block per year in the order the years were given, each block in
\* alphabetical order.
C2_AllFilesPerYear ==
    (IsFileListCall /\ args.month_list = <<>> /\ ~args.one_per_month)
        => (ret.status = "ok" /\ ret.value = ExpectedAll(args))

\* Years given against calendar order, two files of one year and one of the
\* other, listed in an order that is not alphabetical.
C2_Witness ==
    /\ IsFileListCall /\ args.month_list = <<>> /\ ~args.one_per_month
    /\ args.years = <<"1999", "1998">>
    /\ args.file_list = <<"R_y1999m01d05_gridT.nc", "R_y1998m10d02_gridT.nc",
                          "R_y1998m01d10_gridT.nc">>
    /\ args.grid = "T"
    /\ ret = Ok(<<"/data/ANHA4-EPM111-S/R_y1999m01d05_gridT.nc",
                  "/data/ANHA4-EPM111-S/R_y1998m01d10_gridT.nc",
                  "/data/ANHA4-EPM111-S/R_y1998m10d02_gridT.nc">>)

\* The names of the requested years and grid that hold 'y<year>m<month>' for
\* a requested year and a requested month.
NamesOfMonths(a) ==
    {f \in UNION {NamesOf(a.file_list, y, a.grid) : y \in Range(a.years)} :
        \E y \in Range(a.years), m \in Range(a.month_list) :
            Contains(f, "y" \o y \o "m" \o m[2])}

\* C7: with a non-empty month list and one_per_month false, get_file_list
\* returns exactly the files of the requested years and grid whose name
\* holds 'y<year>m<month>' for a requested year and month, for every
\* listing, those with no file in any requested month included.
C7_ExactlyRequestedMonths ==
    (IsFileListCall /\ args.month_list # <<>> /\ ~args.one_per_month)
        => /\ ret.status = "ok"
           /\ Range(ret.value) = {args.data_path \o f : f \in NamesOfMonths(args)}

\* The months the one-per-month selection aims at, as two-digit tokens: the
\* month list, or every month found among the files of the years and grid.
TargetMonths(a) ==
    IF a.month_list # <<>> THEN {m[2] : m \in Range(a.month_list)}
    ELSE {mm \in {StrSlice(f, 8, 10) : f \in
                    UNION {NamesOf(a.file_list, y, a.grid) : y \in Range(a.years)}} :
             TRUE}

\* The files of year y, month mm (date token '_y<y>m<mm>d..').
NamesOfYearMonth(a, y, mm) ==
    {f \in NamesOf(a.file_list, y, a.grid) :
        Contains(f, "_y" \o y \o "m" \o mm \o "d")}

FirstOfYearMonth(a, y, mm) == Alphabetical(NamesOfYearMonth(a, y, mm))[1]

\* C8: with one_per_month true, get_file_list returns for each requested
\* year and each target month the first file of that year and month: every
\* returned file carries its pair's year and month in its date token, and
\* each (year, month) pair contributes one file.  Stated where every pair
\* has a file.
C8_OnePerYearMonth ==
    (/\ IsFileListCall /\ args.one_per_month
     /\ \A y \in Range(args.years), mm \in TargetMonths(args) :
            NamesOfYearMonth(args, y, mm) # {})
        => /\ ret.status = "ok"
           /\ Len(ret.value) = Len(args.years) * Cardinality(TargetMonths(args))
           /\ Range(ret.value) =
                 {args.data_path \o FirstOfYearMonth(args, y, mm) :
                     y \in Range(args.years), mm \in TargetMonths(args)}

(***************************************************************************)
(* The spatial subsetter and the variable extractor.  A 2-D array is a     *)
(* sequence of rows; a dataset is [lat, lon, var] with var indexed         *)
(* [depth][row][col] (time index 0 taken); the mask file's tmask likewise. *)
(* A field is [shape |-> <<rows, cols>>, cells |-> rows of cells] and a    *)
(* cell is <<"num", v>> or <<"nan", 0>>.                                   *)
(***************************************************************************)

RECURSIVE SumSeq(_)
SumSeq(l) == IF l = <<>> THEN 0 ELSE Head(l) + SumSeq(Tail(l))

NRows(m) == Len(m)

NCols(m) == Len(m[1])

\* (x > range[0]) & (x < range[1]), per cell
InRange(m, range) ==
    [i \in 1..NRows(m) |-> [j \in 1..NCols(m) |->
        m[i][j] > range[1] /\ m[i][j] < range[2]]]

\* mask = lat; mask[~(lat_mask & lon_mask)] = 0
MaskedLat(lat, lat_mask, lon_mask) ==
    [i \in 1..NRows(lat) |-> [j \in 1..NCols(lat) |->
        IF lat_mask[i][j] /\ lon_mask[i][j] THEN lat[i][j] ELSE 0]]

\* The test of np.where(... > 0) with `>=` in place of `>`.
SumSelectsNonNegative(total) == total >= 0

\* The test of np.where(mask.data.sum(axis=...) > 0)
SumSelects(total) == total > 0

\* np.where(mask.data.sum(axis=1) > 0)[0]: 0-based row indices, ascending
RowCandidates(mask) ==
    LET Keep(i) == SumSelects(SumSeq(mask[i + 1]))
    IN  SelectSeq([i \in 1..NRows(mask) |-> i - 1], Keep)

\* np.where(mask.data.sum(axis=0) > 0)[0]: 0-based column indices, ascending
ColCandidates(mask) ==
    LET Keep(j) == SumSelects(SumSeq([i \in 1..NRows(mask) |-> mask[i][j + 1]]))
    IN  SelectSeq([j \in 1..NCols(mask) |-> j - 1], Keep)

\* (row_ranges[0], row_ranges[-1]), (col_ranges[0], col_ranges[-1]); indexing
\* an empty candidate list raises IndexError.
SelectRange(row_ranges, col_ranges) ==
    IF row_ranges = <<>> \/ col_ranges = <<>>
    THEN Err("IndexError")
    ELSE Ok(<< <<row_ranges[1], row_ranges[Len(row_ranges)]>>,
               <<col_ranges[1], col_ranges[Len(col_ranges)]>> >>)

CollapseAxes(mask) == SelectRange(RowCandidates(mask), ColCandidates(mask))

\* The whole function.
get_row_col_range(data, lat_range, lon_range) ==
    CollapseAxes(MaskedLat(data.lat, InRange(data.lat, lat_range),
                           InRange(data.lon, lon_range)))

\* The bound x of a slice a:b on an axis of n entries, as Python clips it.
SliceBound(n, x) ==
    IF x < 0 THEN (IF x + n < 0 THEN 0 ELSE x + n)
    ELSE (IF x > n THEN n ELSE x)

\* The number of entries of a[lo:hi] on an axis of n entries.
SliceLen(n, range) ==
    LET lo == SliceBound(n, range[1])
        hi == SliceBound(n, range[2])
    IN  IF hi > lo THEN hi - lo ELSE 0

\* m[row_range[0]:row_range[1], col_range[0]:col_range[1]]
Slice2D(m, row_range, col_range) ==
    LET r0 == SliceBound(NRows(m), row_range[1])
        c0 == SliceBound(NCols(m), col_range[1])
        nr == SliceLen(NRows(m), row_range)
        nc == SliceLen(NCols(m), col_range)
    IN  [shape |-> <<nr, nc>>,
         cells |-> [i \in 1..nr |-> [j \in 1..nc |-> m[r0 + i][c0 + j]]]]

\* a[depth] on an axis of n layers: negative indices count from the end.
DepthIndexOk(n, depth) == -n <= depth /\ depth < n

Layer(a, depth) == IF depth < 0 THEN a[Len(a) + depth + 1] ELSE a[depth + 1]

\* The ranges a function works on: resolved from the box, or passed through.
ResolveRanges(data, lat_range, lon_range, cardinal) ==
    IF cardinal THEN get_row_col_range(data, lat_range, lon_range)
    ELSE Ok(<<lat_range, lon_range>>)

\* lat and lon, each sliced [row_range[0]:row_range[1], col_range[0]:col_range[1]]
LatLonSlices(data, ranges) ==
    IF ranges.status = "error" THEN ranges
    ELSE Ok(<<Slice2D(data.lat, ranges.value[1], ranges.value[2]),
              Slice2D(data.lon, ranges.value[1], ranges.value[2])>>)

\* get_lat_lon: the coordinates over the resolved ranges.
get_lat_lon(data, lat_range, lon_range, cardinal) ==
    LatLonSlices(data, ResolveRanges(data, lat_range, lon_range, cardinal))

\* tmask[row_range[0]:row_range[1], col_range[0]:col_range[1]]
MaskSlice(layer, ranges) ==
    IF ranges.status = "error" THEN ranges
    ELSE Ok(Slice2D(layer, ranges.value[1], ranges.value[2]))

\* get_mask: tmask[0][depth], sliced to the resolved ranges.
get_mask(data, tmask, lat_range, lon_range, depth, cardinal) ==
    IF ~DepthIndexOk(Len(tmask), depth) THEN Err("IndexError")
    ELSE MaskSlice(Layer(tmask, depth),
                   ResolveRanges(data, lat_range, lon_range, cardinal))

Num(v) == <<"num", v>>

NaN == <<"nan", 0>>

\* var_data.data[~(1 == surf_mask.data)] = np.nan: a boolean index of another
\* shape raises IndexError.
ApplyMask(var_data, surf_mask) ==
    IF surf_mask.shape # var_data.shape THEN Err("IndexError")
    ELSE Ok([shape |-> var_data.shape,
             cells |-> [i \in 1..var_data.shape[1] |-> [j \in 1..var_data.shape[2] |->
                 IF surf_mask.cells[i][j] = 1 THEN Num(var_data.cells[i][j])
                 ELSE NaN]]])

Unmasked(var_data) ==
    [shape |-> var_data.shape,
     cells |-> [i \in 1..var_data.shape[1] |-> [j \in 1..var_data.shape[2] |->
         Num(var_data.cells[i][j])]]]

\* The mask get_var_data asks for: get_mask(data, lat_range, lon_range,
\* depth=depth), which leaves cardinal at its default, True.
MaskForVarData(data, tmask, lat_range, lon_range, depth, cardinal) ==
    get_mask(data, tmask, lat_range, lon_range, depth, TRUE)

\* The masking step on the slice var_data, given get_mask's outcome.
MaskVarData(var_data, surf_mask) ==
    IF surf_mask.status = "error" THEN surf_mask
    ELSE ApplyMask(var_data, surf_mask.value)

\* The function from the resolved ranges on.
ExtractVarData(data, tmask, lat_range, lon_range, depth, masked, cardinal, ranges) ==
    IF ranges.status = "error" THEN ranges
    ELSE IF ~DepthIndexOk(Len(data.var), depth) THEN Err("IndexError")
    ELSE IF ~masked
         THEN Ok(Unmasked(Slice2D(Layer(data.var, depth),
                                  ranges.value[1], ranges.value[2])))
         ELSE MaskVarData(Slice2D(Layer(data.var, depth),
                                  ranges.value[1], ranges.value[2]),
                          MaskForVarData(data, tmask, lat_range, lon_range,
                                         depth, cardinal))

\* The whole function.
get_var_data(data, tmask, lat_range, lon_range, depth, masked, cardinal) ==
    ExtractVarData(data, tmask, lat_range, lon_range, depth, masked, cardinal,
                   ResolveRanges(data, lat_range, lon_range, cardinal))

(***************************************************************************)
(* Inputs of the subsetter and the extractor: grids of GridRows x GridCols *)
(* cells whose latitude grows by one per row (and by skew per column, a    *)
(* curvilinear grid) from an origin south of, across or north of the       *)
(* equator, and whose longitude grows by one per column.                   *)
(***************************************************************************)

GridRows == 3

GridCols == 3

NLayers == 2

CoordMax == 4

LatOrigins == {-4, -1, 1}

Skews == {0, 1}

MaskPatterns == {0, 1}

\* The variable's value at 0-based (depth, row, col): distinct per cell.
VarValue(d, i, j) == 100 * d + 10 * i + j

Dataset(lat0, skew) ==
    [lat |-> [i \in 1..GridRows |-> [j \in 1..GridCols |->
                 lat0 + (i - 1) + skew * (j - 1)]],
     lon |-> [i \in 1..GridRows |-> [j \in 1..GridCols |-> j - 1]],
     var |-> [d \in 1..NLayers |-> [i \in 1..GridRows |-> [j \in 1..GridCols |->
                 VarValue(d - 1, i - 1, j - 1)]]]]

Datasets == {Dataset(lat0, skew) : lat0 \in LatOrigins, skew \in Skews}

\* tmask: 1 on ocean cells, 0 elsewhere, in a checkerboard shifted by p.
MaskFile(p) ==
    [d \in 1..NLayers |-> [i \in 1..GridRows |-> [j \in 1..GridCols |->
        IF (d + i + j + p) % 2 = 0 THEN 1 ELSE 0]]]

MaskFiles == {MaskFile(p) : p \in MaskPatterns}

\* Bounding boxes in degrees: min < max.
Boxes == {r \in (-CoordMax..CoordMax) \X (-CoordMax..CoordMax) : r[1] < r[2]}

\* Ranges given to the extractor: degrees in cardinal mode, indices otherwise.
RowRanges == {r \in (0..GridRows) \X (0..GridRows) : r[1] < r[2]}

ColRanges == {r \in (0..GridCols) \X (0..GridCols) : r[1] < r[2]}

Depths == (-(NLayers + 1))..(NLayers + 1)

GetRowColRange ==
    /\ call = "none"
    /\ \E data \in Datasets, lat_range \in Boxes, lon_range \in Boxes :
          /\ call' = "get_row_col_range"
          /\ args' = [data |-> data, lat_range |-> lat_range, lon_range |-> lon_range]
          /\ ret'  = get_row_col_range(data, lat_range, lon_range)

GetVarData ==
    /\ call = "none"
    /\ \E data \in Datasets, tmask \in MaskFiles, lat_range \in RowRanges,
          lon_range \in ColRanges, depth \in Depths, masked \in BOOLEAN,
          cardinal \in BOOLEAN :
          /\ call' = "get_var_data"
          /\ args' = [data |-> data, tmask |-> tmask, lat_range |-> lat_range,
                      lon_range |-> lon_range, depth |-> depth,
                      masked |-> masked, cardinal |-> cardinal]
          /\ ret'  = get_var_data(data, tmask, lat_range, lon_range, depth,
                                  masked, cardinal)

GetLatLon ==
    /\ call = "none"
    /\ \E data \in Datasets, lat_range \in RowRanges, lon_range \in ColRanges,
          cardinal \in BOOLEAN :
          /\ call' = "get_lat_lon"
          /\ args' = [data |-> data, lat_range |-> lat_range,
                      lon_range |-> lon_range, cardinal |-> cardinal]
          /\ ret'  = get_lat_lon(data, lat_range, lon_range, cardinal)

NextGrid == GetRowColRange \/ GetVarData \/ GetLatLon \/ Return

SpecGrid == Init /\ [][NextGrid]_vars

(***************************************************************************)
(* The subsetter's and the extractor's claims.                             *)
(***************************************************************************)

IsRangeCall == call = "get_row_col_range"

IsVarCall == call = "get_var_data"

\* The cell at 0-based (i, j) lies strictly inside the box.
Qualifies(a, i, j) ==
    /\ a.lat_range[1] < a.data.lat[i + 1][j + 1]
    /\ a.data.lat[i + 1][j + 1] < a.lat_range[2]
    /\ a.lon_range[1] < a.data.lon[i + 1][j + 1]
    /\ a.data.lon[i + 1][j + 1] < a.lon_range[2]

RowIndices(a) == 0..(NRows(a.data.lat) - 1)

ColIndices(a) == 0..(NCols(a.data.lat) - 1)

QualifyingRows(a) == {i \in RowIndices(a) : \E j \in ColIndices(a) : Qualifies(a, i, j)}

QualifyingCols(a) == {j \in ColIndices(a) : \E i \in RowIndices(a) : Qualifies(a, i, j)}

Min(S) == CHOOSE x \in S : \A y \in S : x <= y

Max(S) == CHOOSE x \in S : \A y \in S : x >= y

\* C3: for every grid, latitudes of any sign, and every box holding at least
\* one cell, get_row_col_range returns the first and last index of the
\* rows, and of the columns, that hold a cell of the box.
C3_RangeOfQualifyingCells ==
    (IsRangeCall /\ QualifyingRows(args) # {})
        => ret = Ok(<< <<Min(QualifyingRows(args)), Max(QualifyingRows(args))>>,
                       <<Min(QualifyingCols(args)), Max(QualifyingCols(args))>> >>)

\* C9: get_row_col_range ends in an error, returning no range, whenever no
\* cell of the grid lies inside the box.
C9_EmptyRegionIsAnError ==
    (IsRangeCall /\ QualifyingRows(args) = {}) => ret.status = "error"

\* A box north of every cell of a grid of the southern hemisphere, and a box
\* whose latitudes and longitudes each match cells but never the same cell.
C9_Witness ==
    /\ IsRangeCall /\ QualifyingRows(args) = {} /\ ret = Err("IndexError")
    /\ \/ \A i \in RowIndices(args), j \in ColIndices(args) :
             args.data.lat[i + 1][j + 1] < args.lat_range[1]
       \/ /\ \E i \in RowIndices(args), j \in ColIndices(args) :
                /\ args.lat_range[1] < args.data.lat[i + 1][j + 1]
                /\ args.data.lat[i + 1][j + 1] < args.lat_range[2]
          /\ \E i \in RowIndices(args), j \in ColIndices(args) :
                /\ args.lon_range[1] < args.data.lon[i + 1][j + 1]
                /\ args.data.lon[i + 1][j + 1] < args.lon_range[2]

\* The ranges the variable slice of the call is taken over, when there are.
VarRanges(a) == ResolveRanges(a.data, a.lat_range, a.lon_range, a.cardinal)

\* The slice of the variable at layer a.depth over the ranges rr, a cell
\* not-a-number exactly when tmask at its grid position is not 1.
MaskedSlice(a, rr) ==
    LET r0 == SliceBound(GridRows, rr[1][1])
        c0 == SliceBound(GridCols, rr[2][1])
        nr == SliceLen(GridRows, rr[1])
        nc == SliceLen(GridCols, rr[2])
    IN  [shape |-> <<nr, nc>>,
         cells |-> [i \in 1..nr |-> [j \in 1..nc |->
             IF a.tmask[a.depth + 1][r0 + i][c0 + j] = 1
             THEN Num(a.data.var[a.depth + 1][r0 + i][c0 + j])
             ELSE NaN]]]

\* C4: a masked get_var_data takes the mask over the same row and column
\* ranges as the variable slice, in cardinal and in non-cardinal mode alike:
\* the result has the slice's shape, a cell not-a-number exactly when the
\* mask at that cell's grid position is not 1.
C4_MaskOverSameRanges ==
    (/\ IsVarCall /\ args.masked
     /\ args.depth \in 0..(NLayers - 1)
     /\ VarRanges(args).status = "ok")
        => ret = Ok(MaskedSlice(args, VarRanges(args).value))

\* The same in cardinal mode alone.
C4_CardinalOnly ==
    (/\ IsVarCall /\ args.masked /\ args.cardinal
     /\ args.depth \in 0..(NLayers - 1)
     /\ VarRanges(args).status = "ok")
        => ret = Ok(MaskedSlice(args, VarRanges(args).value))

\* C10: get_var_data ends in an error for every depth index that is
\* negative or not less than the number of layers.
C10_DepthOutOfRangeIsAnError ==
    (IsVarCall /\ (args.depth < 0 \/ args.depth >= Len(args.data.var)))
        => ret.status = "error"

\* The part of C10 about depths at or beyond the number of layers.
C10_DepthTooLarge ==
    (IsVarCall /\ args.depth >= Len(args.data.var)) => ret.status = "error"

IsLatLonCall == call = "get_lat_lon"

\* The 0-based indices that a[range[0]:range[1]] takes on an axis of n entries.
SliceIndices(n, range) ==
    {i \in 0..(n - 1) : SliceBound(n, range[1]) <= i /\ i < SliceBound(n, range[2])}

\* The shape of the field a call returned (of the latitudes for get_lat_lon).
ReturnedShape == IF IsVarCall THEN ret.value.shape ELSE ret.value[1].shape

\* C12: in cardinal mode every cell of the grid inside the box lies inside
\* the slice that get_var_data and get_lat_lon take from the ranges of
\* get_row_col_range, so a box holding at least one cell gives a field of
\* at least one cell.
C12_QualifyingCellsInsideSlice ==
    (/\ IsVarCall \/ IsLatLonCall
     /\ args.cardinal
     /\ IsVarCall => args.depth \in 0..(NLayers - 1)
     /\ QualifyingRows(args) # {})
        => /\ VarRanges(args).status = "ok"
           /\ QualifyingRows(args) \subseteq
                  SliceIndices(NRows(args.data.lat), VarRanges(args).value[1])
           /\ QualifyingCols(args) \subseteq
                  SliceIndices(NCols(args.data.lat), VarRanges(args).value[2])
           /\ ret.status = "ok"
           /\ ReturnedShape[1] * ReturnedShape[2] > 0

(***************************************************************************)
(* Numbers.  A float is modelled exactly: a rational <<numerator,          *)
(* denominator>> in lowest terms with a positive denominator; the square   *)
(* root of a rational q is kept as <<"sqrt", q>>.                          *)
(***************************************************************************)

Abs(x) == IF x < 0 THEN -x ELSE x

RECURSIVE GCD(_, _)
GCD(a, b) == IF b = 0 THEN a ELSE GCD(b, a % b)

Rat(n, d) ==
    LET g == GCD(Abs(n), Abs(d))
        sgn == IF d < 0 THEN -1 ELSE 1
    IN  <<(sgn * n) \div g, (sgn * d) \div g>>

RInt(n) == <<n, 1>>

RAdd(a, b) == Rat(a[1] * b[2] + b[1] * a[2], a[2] * b[2])

RSub(a, b) == Rat(a[1] * b[2] - b[1] * a[2], a[2] * b[2])

RMul(a, b) == Rat(a[1] * b[1], a[2] * b[2])

RLeq(a, b) == a[1] * b[2] <= b[1] * a[2]

\* The sum of l[lo..hi], by halves.
RECURSIVE RSumRange(_, _, _)
RSumRange(l, lo, hi) ==
    IF lo > hi THEN RInt(0)
    ELSE IF lo = hi THEN l[lo]
    ELSE LET mid == (lo + hi) \div 2
         IN  RAdd(RSumRange(l, lo, mid), RSumRange(l, mid + 1, hi))

RSum(l) == RSumRange(l, 1, Len(l))

Sqrt(q) == <<"sqrt", q>>

\* The mean of a non-empty list of numbers.
Mean(l) == RMul(RSum(l), Rat(1, Len(l)))

\* The numbers of l in ascending order: the k-th is the number with fewer
\* than k entries below it and at least k entries not above it.
RSort(l) ==
    [k \in 1..Len(l) |->
        CHOOSE x \in {l[i] : i \in 1..Len(l)} :
            /\ Cardinality({i \in 1..Len(l) : ~RLeq(x, l[i])}) < k
            /\ Cardinality({i \in 1..Len(l) : RLeq(l[i], x)}) >= k]

(***************************************************************************)
(* calc_stats_var_data: the not-a-number-aware statistics of the masked    *)
(* field of one file.                                                      *)
(***************************************************************************)

IsNum(c) == c[1] = "num"

NumbersOf(cells) == [k \in 1..Len(cells) |-> RInt(cells[k][2])]

\* The numbers of a field, row by row, its not-a-number cells left out.
FieldNumbers(field) == NumbersOf(SelectSeq(Concat(field.cells), IsNum))

SquaredDeviations(xs, mean) ==
    [k \in 1..Len(xs) |-> RMul(RSub(xs[k], mean), RSub(xs[k], mean))]

MeanOf(xs) == IF xs = <<>> THEN NaN ELSE Mean(xs)

StdOf(xs) == IF xs = <<>> THEN NaN ELSE Sqrt(Mean(SquaredDeviations(xs, Mean(xs))))

MinOf(xs) == IF xs = <<>> THEN NaN ELSE RSort(xs)[1]

MaxOf(xs) == IF xs = <<>> THEN NaN ELSE RSort(xs)[Len(xs)]

\* np.nanmean: not-a-number when no number is left.
nanmean(field) == MeanOf(FieldNumbers(field))

\* np.nanstd: the root of the mean squared deviation from the mean.
nanstd(field) == StdOf(FieldNumbers(field))

\* np.nanmin
nanmin(field) == MinOf(FieldNumbers(field))

\* np.nanmax
nanmax(field) == MaxOf(FieldNumbers(field))

\* The statistics of get_var_data's outcome; np.nanmin of a field of no cell
\* raises.
StatsOfField(var_data, no_min_max) ==
    IF var_data.status = "error" THEN var_data
    ELSE IF no_min_max
         THEN Ok(<<nanmean(var_data.value), nanstd(var_data.value)>>)
    ELSE IF var_data.value.shape[1] * var_data.value.shape[2] = 0
         THEN Err("ValueError")
    ELSE Ok(<<nanmean(var_data.value), nanstd(var_data.value),
              nanmin(var_data.value), nanmax(var_data.value)>>)

\* The whole function; get_var_data is called with masked and cardinal at
\* their defaults (True).
calc_stats_var_data(data, tmask, lat_range, lon_range, depth, no_min_max) ==
    StatsOfField(get_var_data(data, tmask, lat_range, lon_range, depth,
                              TRUE, TRUE),
                 no_min_max)

(***************************************************************************)
(* get_timeseries.  The lists the loop appends to are objects of a heap,   *)
(* named after the line that creates them: `var_means = var_stds = []`     *)
(* binds both names to the one list of line 450, and line 451 does the     *)
(* same for var_mins and var_maxs.                                         *)
(***************************************************************************)

dates == "list@449"

var_means == "list@450"

var_stds == "list@450"

var_mins == "list@451"

var_maxs == "list@451"

EmptyHeap == [o \in {dates, var_means, var_stds, var_mins, var_maxs} |-> <<>>]

\* name.append(x)
append(heap, name, x) == [heap EXCEPT ![name] = Append(@, x)]

IsLeapYear(y) == (y % 4 = 0 /\ y % 100 # 0) \/ y % 400 = 0

DaysInMonth(y, m) ==
    IF m = 2 THEN (IF IsLeapYear(y) THEN 29 ELSE 28)
    ELSE IF m \in {4, 6, 9, 11} THEN 30
    ELSE 31

\* datetime.date(y, m, d): a day that is not of the calendar raises ValueError.
datetime_date(ymd) ==
    IF ymd.status = "error" THEN ymd
    ELSE IF /\ ymd.value[1] \in 1..9999
            /\ ymd.value[2] \in 1..12
            /\ ymd.value[3] \in 1..DaysInMonth(ymd.value[1], ymd.value[2])
         THEN Ok(ymd.value)
    ELSE Err("ValueError")

\* The appends of one pass, once the date of the file is made.
AppendDated(heap, date, stats, no_min_max) ==
    IF date.status = "error" THEN date
    ELSE IF no_min_max
         THEN Ok(append(append(append(heap, var_means, stats[1]),
                               var_stds, stats[2]),
                        dates, date.value))
         ELSE Ok(append(append(append(append(append(heap, var_means, stats[1]),
                                             var_stds, stats[2]),
                                      dates, date.value),
                               var_mins, stats[3]),
                        var_maxs, stats[4]))

\* One pass of the loop body for a file whose statistics are stats: the date
\* is made from the name first, then the lists are appended to.
AppendDatapoint(heap, filename, stats, no_min_max) ==
    AppendDated(heap, datetime_date(get_date_ymd(filename)), stats, no_min_max)

\* pd.DataFrame(columns): the columns must be of one length.
DataFrame(columns) ==
    IF \E c1, c2 \in DOMAIN columns : Len(columns[c1]) # Len(columns[c2])
    THEN Err("ValueError")
    ELSE Ok(columns)

\* The field of the file dated ymd: the base field shifted by the date.
DatasetOfDate(ymd) ==
    [Dataset(1, 0) EXCEPT !.var =
        [d \in 1..NLayers |-> [i \in 1..GridRows |-> [j \in 1..GridCols |->
            VarValue(d - 1, i - 1, j - 1)
                + 1000 * ((ymd[1] - 1998) * 12 + ymd[2] - 1) + ymd[3] - 5]]]]

DatasetOfName(ymd) ==
    IF ymd.status = "error" THEN Dataset(1, 0) ELSE DatasetOfDate(ymd.value)

\* nc.Dataset(filename): the file of 1998-01-05 holds the base field, and a
\* file of another date its own field, shifted by the date.
FileDataset(filename) == DatasetOfName(get_date_ymd(filename))

RECURSIVE TimeseriesLoop(_, _, _, _)

\* The rest of the loop after a pass; an exception in the pass ends the
\* function.
LoopNext(appended, file_list, k, a) ==
    IF appended.status = "error" THEN appended
    ELSE TimeseriesLoop(appended.value, file_list, k + 1, a)

\* The loop body for file k, whose statistics came out as stats, and the
\* rest of the loop; an exception ends the function.
LoopBody(heap, file_list, k, a, stats) ==
    IF stats.status = "error" THEN stats
    ELSE LoopNext(AppendDatapoint(heap, file_list[k], stats.value, a.no_min_max),
                  file_list, k, a)

\* The loop over file_list from file k on.
TimeseriesLoop(heap, file_list, k, a) ==
    IF k > Len(file_list) THEN Ok(heap)
    ELSE LoopBody(heap, file_list, k, a,
             calc_stats_var_data(FileDataset(file_list[k]), a.tmask,
                 a.lat_range, a.lon_range, a.depth, a.no_min_max))

\* The table made of the lists the loop filled.
TimeseriesTable(loop, no_min_max) ==
    IF loop.status = "error" THEN loop
    ELSE IF no_min_max
         THEN DataFrame([date     |-> loop.value[dates],
                         var_mean |-> loop.value[var_means],
                         var_std  |-> loop.value[var_stds]])
         ELSE DataFrame([date     |-> loop.value[dates],
                         var_mean |-> loop.value[var_means],
                         var_std  |-> loop.value[var_stds],
                         var_min  |-> loop.value[var_mins],
                         var_max  |-> loop.value[var_maxs]])

\* The whole function.
get_timeseries(a) ==
    TimeseriesTable(TimeseriesLoop(EmptyHeap, a.file_list, 1, a), a.no_min_max)

(***************************************************************************)
(* Inputs of the time-series builder: lists of up to MaxSeriesFiles paths  *)
(* of T-grid files, over a box that holds cells of every file's grid.      *)
(***************************************************************************)

MaxSeriesFiles == 3

SeriesFiles ==
    {dp \o f : dp \in DataPaths,
               f \in {"R_y1998m01d05_gridT.nc", "R_y1998m01d10_gridT.nc",
                      "R_y1998m02d04_gridT.nc", "R_y1999m01d05_gridT.nc",
                      "R_y1998m02d30_gridT.nc"}}

SeriesFileLists == SeqsUpTo(SeriesFiles, MaxSeriesFiles)

SeriesBoxes == {<< <<0, 4>>, <<-1, 3>> >>, << <<1, 4>>, <<0, 3>> >>}

GetTimeseries ==
    /\ call = "none"
    /\ \E file_list \in SeriesFileLists, box \in SeriesBoxes,
          tmask \in MaskFiles, no_min_max \in BOOLEAN :
          LET a == [file_list |-> file_list, lat_range |-> box[1],
                    lon_range |-> box[2], depth |-> 0, tmask |-> tmask,
                    no_min_max |-> no_min_max]
          IN  /\ call' = "get_timeseries"
              /\ args' = a
              /\ ret'  = get_timeseries(a)

NextSeries == GetTimeseries \/ Return

SpecSeries == Init /\ [][NextSeries]_vars

(***************************************************************************)
(* The time-series builder's claim.                                        *)
(***************************************************************************)

IsSeriesCall == call = "get_timeseries"

\* The statistics of file k of the call, computed from that file alone.
StatsOfFile(a, k) ==
    calc_stats_var_data(FileDataset(a.file_list[k]), a.tmask, a.lat_range,
                        a.lon_range, a.depth, a.no_min_max)

\* The date that the name of file k of the call carries.
DateOfFile(a, k) == datetime_date(get_date_ymd(a.file_list[k]))

\* Every file gives its statistics and is named after a day of the calendar.
AllFilesRead(a) ==
    \A k \in 1..Len(a.file_list) :
        StatsOfFile(a, k).status = "ok" /\ DateOfFile(a, k).status = "ok"

\* C1: for every non-empty file list whose files all read, get_timeseries
\* returns a table of one row per file, in file order, row i holding the
\* date of the name of file i and the mean and standard deviation of file i
\* (and its min and max when they are requested).
C1_OneRowPerFile ==
    (IsSeriesCall /\ args.file_list # <<>> /\ AllFilesRead(args))
        => /\ ret.status = "ok"
           /\ \A c \in DOMAIN ret.value : Len(ret.value[c]) = Len(args.file_list)
           /\ \A k \in 1..Len(args.file_list) :
                 /\ ret.value.date[k] = DateOfFile(args, k).value
                 /\ ret.value.var_mean[k] = StatsOfFile(args, k).value[1]
                 /\ ret.value.var_std[k] = StatsOfFile(args, k).value[2]
                 /\ ~args.no_min_max =>
                       /\ ret.value.var_min[k] = StatsOfFile(args, k).value[3]
                       /\ ret.value.var_max[k] = StatsOfFile(args, k).value[4]

\* What the loop leaves in the lists: the means and the standard deviations
\* interleaved in the one list both names are bound to.
C1_InterleavedLists ==
    (IsSeriesCall /\ args.file_list # <<>>) => ret = Err("ValueError")

(***************************************************************************)
(* calc_timeseries and anhalize_timeseries.  A table is the sequence of    *)
(* its rows, a row a record of its columns; a date is <<year, month,       *)
(* day>>.                                                                  *)
(***************************************************************************)

year_standard == 2000

year_min == 1958

year_max == 2009

n_year == year_max - year_min + 1

DateLess(a, b) ==
    \/ a[1] < b[1]
    \/ a[1] = b[1] /\ a[2] < b[2]
    \/ a[1] = b[1] /\ a[2] = b[2] /\ a[3] < b[3]

\* The group keys of groupby('wrap_day'), which sorts them.
GroupKeys(timeseries) ==
    LET keys == {timeseries[i].wrap_day : i \in 1..Len(timeseries)}
    IN  [k \in 1..Cardinality(keys) |->
            CHOOSE d \in keys : Cardinality({e \in keys : DateLess(e, d)}) = k - 1]

\* The values of column col in the rows of group key, in row order.
GroupValues(timeseries, key, col) ==
    LET InGroup(row) == row.wrap_day = key
        rows == SelectSeq(timeseries, InGroup)
    IN  [i \in 1..Len(rows) |-> rows[i][col]]

\* quantile(tenths / 10) of a non-empty list, interpolating linearly between
\* the two nearest ranks as pandas does by default.
Quantile(values, tenths) ==
    LET sv   == RSort(values)
        pos  == tenths * (Len(sv) - 1)
        lo   == (pos \div 10) + 1
        hi   == IF pos % 10 = 0 THEN lo ELSE lo + 1
    IN  RAdd(sv[lo], RMul(Rat(pos % 10, 10), RSub(sv[hi], sv[lo])))

\* The aggregation an action of the 'g_' family names, tested in the
\* order of the elif chain; "none" when it names none.
GroupAction(action) ==
    IF Contains(action, "mean") THEN "mean"
    ELSE IF Contains(action, "quantile90") THEN "quantile90"
    ELSE IF Contains(action, "quantile10") THEN "quantile10"
    ELSE IF Contains(action, "median") THEN "median"
    ELSE IF Contains(action, "max") THEN "max"
    ELSE "none"

Aggregate(kind, values) ==
    CASE kind = "mean"       -> Mean(values)
      [] kind = "quantile90" -> Quantile(values, 9)
      [] kind = "quantile10" -> Quantile(values, 1)
      [] kind = "median"     -> Quantile(values, 5)
      [] kind = "max"        -> RSort(values)[Len(values)]

\* grouped_timeseries.<aggregation>().reset_index()
GroupedTable(timeseries, kind) ==
    LET keys == GroupKeys(timeseries)
    IN  [k \in 1..Len(keys) |->
            [wrap_day |-> keys[k],
             var_mean |-> Aggregate(kind, GroupValues(timeseries, keys[k], "var_mean")),
             var_std  |-> Aggregate(kind, GroupValues(timeseries, keys[k], "var_std"))]]

\* np.array(l * n): the list l, n times over.
Tile(l, n) == [i \in 1..(Len(l) * n) |-> l[((i - 1) % Len(l)) + 1]]

Column(timeseries, col) == [i \in 1..Len(timeseries) |-> timeseries[i][col]]

\* The 'remove_' threshold with the sign of the 'add_' one.
RemoveThresholdAdded(row, k) ==
    LET delta_t == RSub(row.var_mean_mean, row.var_mean_quantile)
    IN  RAdd(row.var_mean_mean, RMul(RInt(k), delta_t))

\* timeseries['var_mean_mean'] + k*delta_t, delta_t = quantile - mean
AddThreshold(row, k) ==
    LET delta_t == RSub(row.var_mean_quantile, row.var_mean_mean)
    IN  RAdd(row.var_mean_mean, RMul(RInt(k), delta_t))

\* timeseries['var_mean_mean'] - k*delta_t, delta_t = mean - quantile
RemoveThreshold(row, k) ==
    LET delta_t == RSub(row.var_mean_mean, row.var_mean_quantile)
    IN  RSub(row.var_mean_mean, RMul(RInt(k), delta_t))

\* The multiple of delta_t an action names, tested in the order of the elif
\* chain; 0 when it names none.
ThresholdLevel(action) ==
    IF Contains(action, "2T") THEN 2
    ELSE IF Contains(action, "3T") THEN 3
    ELSE IF Contains(action, "4T") THEN 4
    ELSE 0

\* Python's None.  Where a str may be None (run_name), the str s is written
\* <<"str", s>>, so that the str 'None' is not None.
None == <<"NoneType">>

\* The table carries the columns cols.  The table of no row is the table
\* of no column, pd.DataFrame().
HasColumns(timeseries, cols) ==
    /\ Len(timeseries) > 0
    /\ \A i \in 1..Len(timeseries) : cols \subseteq DOMAIN timeseries[i]

\* The whole function: a table for a 'g_' action, a list of values (an
\* array or a column) for an 'add_' or 'remove_' action, None otherwise.
\* The columns a branch reads are read before its action is told apart, and
\* a missing one raises KeyError.  The parameter n_year is n here, None
\* or <<"int", k>>; a list times None raises TypeError.
calc_timeseries(timeseries, action, n) ==
    IF Contains(action, "g_")
    THEN IF ~HasColumns(timeseries, {"wrap_day", "var_mean", "var_std"})
         THEN Err("KeyError")
         ELSE IF GroupAction(action) = "none" THEN Ok(None)
         ELSE Ok(GroupedTable(timeseries, GroupAction(action)))
    ELSE IF Contains(action, "add_")
    THEN IF Contains(action, "long")
         THEN IF ~HasColumns(timeseries, {"var_mean"}) THEN Err("KeyError")
              ELSE IF n = None THEN Err("TypeError")
              ELSE Ok(Tile(Column(timeseries, "var_mean"), n[2]))
         ELSE IF ~HasColumns(timeseries, {"var_mean_quantile", "var_mean_mean"})
              THEN Err("KeyError")
              ELSE IF ThresholdLevel(action) = 0 THEN Ok(None)
              ELSE Ok([i \in 1..Len(timeseries) |->
                          AddThreshold(timeseries[i], ThresholdLevel(action))])
    ELSE IF Contains(action, "remove_")
    THEN IF ~HasColumns(timeseries, {"var_mean_mean", "var_mean_quantile"})
         THEN Err("KeyError")
         ELSE IF ThresholdLevel(action) = 0 THEN Ok(None)
         ELSE Ok([i \in 1..Len(timeseries) |->
                     RemoveThreshold(timeseries[i], ThresholdLevel(action))])
    ELSE Ok(None)

\* table[col] = values: a list of another length than the table raises;
\* None is a scalar and fills the column.
SetColumn(table, col, values) ==
    IF values = None THEN Ok([i \in 1..Len(table) |-> (col :> None) @@ table[i]])
    ELSE IF Len(values) # Len(table) THEN Err("ValueError")
    ELSE Ok([i \in 1..Len(table) |-> (col :> values[i]) @@ table[i]])

\* The year, month, day and wrap_day columns.
WithCalendar(raw_timeseries) ==
    [i \in 1..Len(raw_timeseries) |->
        [year     |-> raw_timeseries[i].date[1],
         month    |-> raw_timeseries[i].date[2],
         day      |-> raw_timeseries[i].date[3],
         wrap_day |-> <<year_standard, raw_timeseries[i].date[2],
                        raw_timeseries[i].date[3]>>]
        @@ raw_timeseries[i]]

Actions(mhw) ==
    IF mhw THEN <<"g_quantile90", "add_2T", "add_3T", "add_4T">>
    ELSE <<"g_quantile10", "remove_2T", "remove_3T", "remove_4T">>

\* table[col] = the outcome of a call of calc_timeseries.
SetColumnTo(table, col, values) ==
    IF values.status = "error" THEN values
    ELSE SetColumn(table, col, values.value)

\* table[col] = calc_timeseries(table, action), when no step before raised.
AddThresholdColumn(table, col, action) ==
    IF table.status = "error" THEN table
    ELSE SetColumnTo(table.value, col, calc_timeseries(table.value, action, None))

\* table[col] = calc_timeseries(grouped, action='add_long', n_year=n_year),
\* when no step before raised.
AddLongColumn(table, col, grouped) ==
    IF table.status = "error" THEN table
    ELSE SetColumnTo(table.value, col,
                     calc_timeseries(grouped, "add_long", <<"int", n_year>>))

\* Lines 605 to 617, given the two folded tables.
AddClimatology(timeseries, year_mean, year_quantile, actions) ==
    IF year_mean.status = "error" THEN year_mean
    ELSE IF year_quantile.status = "error" THEN year_quantile
    ELSE AddThresholdColumn(
             AddThresholdColumn(
                 AddThresholdColumn(
                     AddLongColumn(
                         AddLongColumn(Ok(timeseries), "var_mean_mean",
                                       year_mean.value),
                         "var_mean_quantile", year_quantile.value),
                     "var_mean_2T", actions[2]),
                 "var_mean_3T", actions[3]),
             "var_mean_4T", actions[4])

\* Lines 598 to 617, given the table with its calendar columns.
FoldAndAdd(timeseries, actions) ==
    AddClimatology(timeseries,
                   calc_timeseries(timeseries, "g_mean", None),
                   calc_timeseries(timeseries, actions[1], None),
                   actions)

\* The whole function.  Line 577 reads the column 'date' first.
anhalize_timeseries(raw_timeseries, mhw) ==
    IF ~HasColumns(raw_timeseries, {"date"}) THEN Err("KeyError")
    ELSE FoldAndAdd(WithCalendar(raw_timeseries), Actions(mhw))

(***************************************************************************)
(* Inputs of the climatology engine: daily series of nYears years from     *)
(* year_min on, the same nDays days each year, sorted by date.  Day k      *)
(* holds 10 * k, and bump * k more in the first `hot` years.               *)
(***************************************************************************)

MaxDays == 2

MaxHot == 6

MaxBump == 2

YearCounts == {1, 2, n_year}

SeriesValue(y, k, hot, bump) == 10 * k + (IF y < hot THEN bump * k ELSE 0)

RawSeries(nYears, nDays, hot, bump) ==
    [i \in 1..(nYears * nDays) |->
        LET y == (i - 1) \div nDays
            k == ((i - 1) % nDays) + 1
        IN  [date     |-> <<year_min + y, 1, 5 * k>>,
             var_mean |-> RInt(SeriesValue(y, k, hot, bump)),
             var_std  |-> Rat(k, 2)]]

AnhalizeTimeseries ==
    /\ call = "none"
    /\ \E nYears \in YearCounts, nDays \in 1..MaxDays, hot \in 0..MaxHot,
          bump \in (-MaxBump)..MaxBump, mhw \in BOOLEAN :
          LET raw == RawSeries(nYears, nDays, hot, bump)
          IN  /\ call' = "anhalize_timeseries"
              /\ args' = [raw_timeseries |-> raw, mhw |-> mhw]
              /\ ret'  = anhalize_timeseries(raw, mhw)

NextClim == AnhalizeTimeseries \/ Return

SpecClim == Init /\ [][NextClim]_vars

(***************************************************************************)
(* The climatology engine's claims.                                        *)
(***************************************************************************)

IsAnhalizeCall == call = "anhalize_timeseries"

\* The rows of the raw series that fall on month m, day d.
RowsOfDay(raw, md) ==
    {j \in 1..Len(raw) : raw[j].date[2] = md[1] /\ raw[j].date[3] = md[2]}

CalendarDays(raw) == {<<raw[j].date[2], raw[j].date[3]>> : j \in 1..Len(raw)}

\* The var_mean of the rows of S, in row order.
ValuesOf(raw, S) ==
    LET In(j) == j \in S
        idx == SelectSeq([j \in 1..Len(raw) |-> j], In)
    IN  [k \in 1..Len(idx) |-> raw[idx[k]].var_mean]

\* Every year of the series holds the same value on the same calendar day.
IdenticalYears(raw) ==
    \A md \in CalendarDays(raw) :
        \A i, j \in RowsOfDay(raw, md) : raw[j].var_mean = raw[i].var_mean

\* The climatology columns of a returned table are those of the claim.
ClimatologyHolds(raw, mhw, table) ==
    /\ Len(table) = Len(raw)
    /\ \A md \in CalendarDays(raw) :
          LET values   == ValuesOf(raw, RowsOfDay(raw, md))
              mean     == Mean(values)
              quantile == Quantile(values, IF mhw THEN 9 ELSE 1)
          IN  \A i \in RowsOfDay(raw, md) :
                 /\ table[i].var_mean_mean = mean
                 /\ table[i].var_mean_quantile = quantile
                 /\ IdenticalYears(raw) =>
                       /\ table[i].var_mean_mean = raw[i].var_mean
                       /\ table[i].var_mean_2T = table[i].var_mean_mean
                       /\ table[i].var_mean_3T = table[i].var_mean_mean
                       /\ table[i].var_mean_4T = table[i].var_mean_mean

\* C5: for every series of N >= 1 years (a 2-year series in particular) of
\* the same calendar days each year, sorted by date, anhalize_timeseries
\* returns a table whose var_mean_mean and var_mean_quantile are, in each
\* row, the mean and the mode's quantile of var_mean over the rows of that
\* row's wrap_day; with identical years var_mean_mean is each year's value
\* and the three thresholds equal it.
C5_ClimatologyOfEverySeries ==
    IsAnhalizeCall
        => /\ ret.status = "ok"
           /\ ClimatologyHolds(args.raw_timeseries, args.mhw, ret.value)

\* The same for the series of exactly n_year years, which the function
\* returns a table for.
C5_FullPeriodOnly ==
    (IsAnhalizeCall /\ ret.status = "ok")
        => ClimatologyHolds(args.raw_timeseries, args.mhw, ret.value)

\* C6: in every row of the returned table var_mean_kT is
\* mean + k * (quantile - mean) for k = 2, 3, 4; heatwave mode gives
\* mean <= 2T <= 3T <= 4T when quantile >= mean, and cold-spell mode gives
\* mean >= 2T >= 3T >= 4T when quantile <= mean.
C6_ThresholdOrdering ==
    (IsAnhalizeCall /\ ret.status = "ok")
        => \A i \in 1..Len(ret.value) :
              LET row   == ret.value[i]
                  mean  == row.var_mean_mean
                  q     == row.var_mean_quantile
                  Level(k) == RAdd(mean, RMul(RInt(k), RSub(q, mean)))
              IN  /\ row.var_mean_2T = Level(2)
                  /\ row.var_mean_3T = Level(3)
                  /\ row.var_mean_4T = Level(4)
                  /\ (args.mhw /\ RLeq(mean, q)) =>
                        /\ RLeq(mean, row.var_mean_2T)
                        /\ RLeq(row.var_mean_2T, row.var_mean_3T)
                        /\ RLeq(row.var_mean_3T, row.var_mean_4T)
                  /\ (~args.mhw /\ RLeq(q, mean)) =>
                        /\ RLeq(row.var_mean_2T, mean)
                        /\ RLeq(row.var_mean_3T, row.var_mean_2T)
                        /\ RLeq(row.var_mean_4T, row.var_mean_3T)

\* A returned cold-spell table with a row whose quantile lies strictly
\* below its mean and whose thresholds strictly descend.
C6_Witness ==
    /\ IsAnhalizeCall /\ ret.status = "ok" /\ ~args.mhw
    /\ \E i \in 1..Len(ret.value) :
          LET row == ret.value[i]
          IN  /\ row.var_mean_quantile # row.var_mean_mean
              /\ RLeq(row.var_mean_quantile, row.var_mean_mean)
              /\ row.var_mean_4T # row.var_mean_3T
              /\ RLeq(row.var_mean_4T, row.var_mean_3T)
              /\ RLeq(row.var_mean_3T, row.var_mean_2T)
              /\ RLeq(row.var_mean_2T, row.var_mean_mean)

\* The same in heatwave mode, thresholds strictly ascending.
C6_WitnessHeatwave ==
    /\ IsAnhalizeCall /\ ret.status = "ok" /\ args.mhw
    /\ \E i \in 1..Len(ret.value) :
          LET row == ret.value[i]
          IN  /\ row.var_mean_quantile # row.var_mean_mean
              /\ RLeq(row.var_mean_mean, row.var_mean_quantile)
              /\ row.var_mean_4T # row.var_mean_3T
              /\ RLeq(row.var_mean_3T, row.var_mean_4T)

(***************************************************************************)
(* get_paths: the data and mask directories of a run.                      *)
(***************************************************************************)

Lowercase == "abcdefghijklmnopqrstuvwxyz"

Uppercase == "ABCDEFGHIJKLMNOPQRSTUVWXYZ"

UpperChar(c) ==
    CASE Known(c) ->
        IF \E i \in 1..Len(Lowercase) : CharAt(Lowercase, i) = c
        THEN CharAt(Uppercase, CHOOSE i \in 1..Len(Lowercase) : CharAt(Lowercase, i) = c)
        ELSE c

\* s.upper() for a string s over Alphabet, whose only cased characters are
\* the ASCII letters.
RECURSIVE upper(_)
upper(s) ==
    IF Len(s) = 0 THEN ""
    ELSE UpperChar(CharAt(s, 1)) \o upper(SubSeq(s, 2, Len(s)))

\* not run_name: None and the empty string are false.
Falsy(run_name) == run_name = None \/ run_name = <<"str", "">>

\* The branch on the user initials; no known user raises ValueError.
UserPathJMOnly(user_initials) ==
    IF Contains(user_initials, "JM") THEN Ok("jmarson")
    ELSE IF user_initials = "MC" THEN Ok("madhurima")
    ELSE IF user_initials = "EE" THEN Ok("emilio")
    ELSE Err("ValueError")

UserPath(user_initials) ==
    IF Contains(user_initials, "JM") \/ Contains(user_initials, "PM")
    THEN Ok("jmarson")
    ELSE IF user_initials = "MC" THEN Ok("madhurima")
    ELSE IF user_initials = "EE" THEN Ok("emilio")
    ELSE Err("ValueError")

\* The two f-strings, returned as (data_path, mask_path).
StoragePaths(user_path, model_path, run_name) ==
    IF user_path.status = "error" THEN user_path
    ELSE Ok(<< "/mnt/storage0/" \o user_path.value \o "/NEMO/" \o model_path
                   \o "/" \o run_name \o "-S/",
               "/mnt/storage0/" \o user_path.value \o "/ANALYSES/MASKS/" >>)

\* The else branch: the three asserts, then the paths from the run name.
PathsFromRunName(run_name) ==
    IF ~Contains(run_name, "-") THEN Err("AssertionError")
    ELSE IF ~Contains(run_name, "ANHA") THEN Err("AssertionError")
    ELSE IF Len(run_name) # Len("ANHA4-WJM000") THEN Err("AssertionError")
    ELSE StoragePaths(UserPath(upper(StrSlice(split(run_name, "-")[2], 1, 3))),
                      split(run_name, "-")[1], run_name)

\* The if branch: a missing variable is caught and a message printed, and the
\* return statement then reads a name that was never bound.
PathsFromEnviron(environ) ==
    IF "MASK_PATH" \in DOMAIN environ /\ "DATA_PATH" \in DOMAIN environ
    THEN Ok(<<environ["DATA_PATH"], environ["MASK_PATH"]>>)
    ELSE Err("UnboundLocalError")

\* The whole function, on a host named hostname with environment environ.
get_paths(hostname, environ, run_name, environ_paths) ==
    IF ~Contains(hostname, "portal") \/ Falsy(run_name) \/ environ_paths
    THEN PathsFromEnviron(environ)
    ELSE PathsFromRunName(run_name[2])

(***************************************************************************)
(* Inputs of the path resolver.                                            *)
(***************************************************************************)

Hostnames == {"portal", "workstation"}

Environs ==
    { [v \in D |-> IF v = "MASK_PATH" THEN "/env/MASKS/" ELSE "/env/ANHA4-EPM111-S/"] :
          D \in SUBSET {"MASK_PATH", "DATA_PATH"} }

RunHeads ==
    {"ANHA4-W", "ANHA4-X", "ANHA12-W", "-X", "ANHA4-", "ANHA4-W-", "ANHA4W", "NEMO4-W"}

CodeChars == {"J", "M", "P", "C", "E", "Y", "Z", "j"}

RunTails == {"004", "00", "0000", "ANHA0000"}

RunNames ==
    { <<"str", h \o a \o b \o t>> :
          h \in RunHeads, a \in CodeChars, b \in CodeChars, t \in RunTails }
        \cup {None, <<"str", "">>, <<"str", "None">>}

GetPaths ==
    /\ call = "none"
    /\ \E h \in Hostnames, e \in Environs, r \in RunNames, ep \in BOOLEAN :
          /\ call' = "get_paths"
          /\ args' = [hostname |-> h, environ |-> e, run_name |-> r, environ_paths |-> ep]
          /\ ret'  = get_paths(h, e, r, ep)

NextPaths == GetPaths \/ Return

SpecPaths == Init /\ [][NextPaths]_vars

(***************************************************************************)
(* Claims about the path resolver.                                         *)
(***************************************************************************)

IsPathsCall == call = "get_paths"

\* Deployment mode: recognized host, run identifier given, environment mode
\* not forced.
DeploymentMode ==
    /\ IsPathsCall
    /\ Contains(args.hostname, "portal")
    /\ args.run_name # None /\ args.run_name # <<"str", "">>
    /\ ~args.environ_paths

\* The run identifier of a call that was given one.
RunIdentifier == args.run_name[2]

PassesFormatValidation(run) ==
    /\ \E i \in 1..Len(run) : CharAt(run, i) = "-"
    /\ \E i \in 1..(Len(run) - 3) : SubSeq(run, i, i + 3) = "ANHA"
    /\ Len(run) = Len("ANHA4-WJM000")

\* The position of the first separator of run.
FirstDash(run) ==
    CHOOSE i \in 1..Len(run) :
        /\ CharAt(run, i) = "-"
        /\ \A j \in 1..(i - 1) : CharAt(run, j) # "-"

\* The model name: what stands before the first separator.
ModelOf(run) == SubSeq(run, 1, FirstDash(run) - 1)

\* The user code: the second and third characters after the first separator,
\* as far as they stand before the next separator, in capitals.
UserCodeOf(run) ==
    LET p == FirstDash(run)
        c(k) == IF p + k <= Len(run)
                   /\ \A j \in (p + 1)..(p + k) : CharAt(run, j) # "-"
                THEN UpperChar(CharAt(run, p + k))
                ELSE ""
    IN  IF c(2) = "" THEN "" ELSE c(2) \o c(3)

KnownUsers == [JM |-> "jmarson", PM |-> "jmarson", MC |-> "madhurima", EE |-> "emilio"]

\* C11: in deployment mode, for a run identifier that passes format
\* validation, get_paths raises an error when the user code is not one of JM,
\* PM, MC, EE, and otherwise returns
\* '/mnt/storage0/<user>/NEMO/<model>/<run>-S/' and
\* '/mnt/storage0/<user>/ANALYSES/MASKS/', whatever the environment holds.
C11_PathsFromIdentifier ==
    (DeploymentMode /\ PassesFormatValidation(RunIdentifier)) =>
        IF UserCodeOf(RunIdentifier) \notin DOMAIN KnownUsers
        THEN ret.status = "error"
        ELSE ret = Ok(<< "/mnt/storage0/" \o KnownUsers[UserCodeOf(RunIdentifier)]
                             \o "/NEMO/" \o ModelOf(RunIdentifier) \o "/"
                             \o RunIdentifier \o "-S/",
                         "/mnt/storage0/" \o KnownUsers[UserCodeOf(RunIdentifier)]
                             \o "/ANALYSES/MASKS/" >>)

\* The identifier of the spec's example, 'ANHA4-XYZ004', is refused.
C11_Witness ==
    /\ DeploymentMode
    /\ RunIdentifier = "ANHA4-XYZ004"
    /\ PassesFormatValidation(RunIdentifier)
    /\ ret = Err("ValueError")

\* A run of user PM is resolved although the environment defines no path.
C11_WitnessResolved ==
    /\ DeploymentMode
    /\ RunIdentifier = "ANHA4-WPM004"
    /\ DOMAIN args.environ = {}
    /\ ret = Ok(<<"/mnt/storage0/jmarson/NEMO/ANHA4/ANHA4-WPM004-S/",
                  "/mnt/storage0/jmarson/ANALYSES/MASKS/">>)

(***************************************************************************)
(* The library as a whole: any of its functions may be called when idle.   *)
(***************************************************************************)

Next ==
    \/ GetFileListAll
    \/ GetFileListMonths
    \/ GetFileListOnePerMonth
    \/ GetRowColRange
    \/ GetVarData
    \/ GetLatLon
    \/ GetTimeseries
    \/ AnhalizeTimeseries
    \/ GetPaths
    \/ Return

Spec == Init /\ [][Next]_vars

====
